---- MODULE Spec2Model ----
(***************************************************************************)
(* Fuel Price Alert System (microchimp/FillYaTank).                        *)
(*                                                                         *)
(* A model of the scheduled run (src/main.py), the signup handler          *)
(* (src/signup.py) and the confirm / unsubscribe handlers with their HTTP  *)
(* entry points (src/api/handlers.py), over the two persisted files        *)
(* data/state.json and data/subscribers.json.                              *)
(*                                                                         *)
(* Texts, addresses, city names and tokens are strings, and the string     *)
(* functions of the code (lower, strip, substring search, the e-mail       *)
(* pattern, the token's data string) are computed character by character.  *)
(* The one abstraction is the hash: SHA-256 truncated to 16 bytes is a     *)
(* symbolic injective function of its input (collision resistance).        *)
(***************************************************************************)
EXTENDS Integers, Sequences, FiniteSets, TLC

(***************************************************************************)
(* Python string primitives                                                *)
(***************************************************************************)

UpperLetters == "ABCDEFGHIJKLMNOPQRSTUVWXYZ"
LowerLetters == "abcdefghijklmnopqrstuvwxyz"
DigitChars == "0123456789"

\* The set of the characters of a string.
CharsOf(s) == { SubSeq(s, i, i) : i \in 1..Len(s) }

\* The lower-case letter of every upper-case letter.
LowerOf ==
    [ch \in CharsOf(UpperLetters) |->
        LET i == CHOOSE k \in 1..Len(UpperLetters) : SubSeq(UpperLetters, k, k) = ch
        IN  SubSeq(LowerLetters, i, i)]

\* str.lower() on one character (ASCII).
LowerChar(ch) == IF ch \in DOMAIN LowerOf THEN LowerOf[ch] ELSE ch

\* str.lower(): every character lower-cased (computed by halves).
RECURSIVE Lower(_)
Lower(s) ==
    IF Len(s) = 0 THEN ""
    ELSE IF Len(s) = 1 THEN LowerChar(s)
    ELSE LET h == Len(s) \div 2
         IN  Lower(SubSeq(s, 1, h)) \o Lower(SubSeq(s, h + 1, Len(s)))

\* The characters str.strip() removes (ASCII whitespace).
Whitespace == {" ", "\t", "\n", "\r", "\f"}

\* str.strip(): drop leading and trailing whitespace.
RECURSIVE LStrip(_)
LStrip(s) == IF s # "" /\ Head(s) \in Whitespace THEN LStrip(Tail(s)) ELSE s

RECURSIVE RStrip(_)
RStrip(s) ==
    IF s # "" /\ SubSeq(s, Len(s), Len(s)) \in Whitespace
    THEN RStrip(SubSeq(s, 1, Len(s) - 1))
    ELSE s

Strip(s) == RStrip(LStrip(s))

\* Python's `phrase in text`: substring containment.
Contains(text, phrase) ==
    \E i \in 1..(Len(text) - Len(phrase) + 1) :
        SubSeq(text, i, i + Len(phrase) - 1) = phrase

\* dict.get(key, default)
Get(d, key, default) == IF key \in DOMAIN d THEN d[key] ELSE default

\* dict.values()
Values(d) == { d[k] : k \in DOMAIN d }

\* The elements of a list.
Range(seq) == { seq[i] : i \in 1..Len(seq) }

(***************************************************************************)
(* Query strings: urllib.parse.urlparse and parse_qs, as api/handlers.py   *)
(* applies them to the URL of a request                                    *)
(***************************************************************************)

\* The places of a character in a string.
Positions(s, ch) == { i \in 1..Len(s) : SubSeq(s, i, i) = ch }

\* The least of a set of places.
First(S) == CHOOSE i \in S : \A j \in S : i <= j

\* urlparse(url).query: what follows the first "?", without the fragment
\* that a "#" starts.
UrlQuery(url) ==
    LET hashes == Positions(url, "#")
        body == IF hashes = {} THEN url ELSE SubSeq(url, 1, First(hashes) - 1)
        marks == Positions(body, "?")
    IN  IF marks = {} THEN "" ELSE SubSeq(body, First(marks) + 1, Len(body))

HexDigits == "0123456789abcdef"

IsHex(ch) == \E i \in 1..Len(HexDigits) : SubSeq(HexDigits, i, i) = LowerChar(ch)

HexValue(ch) ==
    (CHOOSE i \in 1..Len(HexDigits) : SubSeq(HexDigits, i, i) = LowerChar(ch)) - 1

\* The printable ASCII characters from code 32 to code 95, and from code
\* 97 to code 126.
PrintableLow ==
    " !\"#$%&'()*+,-./0123456789:;<=>?@ABCDEFGHIJKLMNOPQRSTUVWXYZ[\\]^_"

PrintableHigh == "abcdefghijklmnopqrstuvwxyz{|}~"

\* The character of a byte; a byte that is not one of these characters is
\* kept as a mark of its own.
Chr(n) ==
    IF n \in 32..95 THEN SubSeq(PrintableLow, n - 31, n - 31)
    ELSE IF n \in 97..126 THEN SubSeq(PrintableHigh, n - 96, n - 96)
    ELSE "<byte>"

\* urllib.parse.unquote_plus, which parse_qs applies to every name and
\* value: "+" is a space, "%" followed by two hex digits is the byte they
\* spell, anything else stands for itself. Read from left to right.
RECURSIVE unquote_chars(_)
unquote_chars(s) ==
    IF Len(s) = 0 THEN ""
    ELSE IF SubSeq(s, 1, 1) = "+"
    THEN " " \o unquote_chars(SubSeq(s, 2, Len(s)))
    ELSE IF /\ SubSeq(s, 1, 1) = "%"
            /\ Len(s) >= 3
            /\ IsHex(SubSeq(s, 2, 2))
            /\ IsHex(SubSeq(s, 3, 3))
    THEN Chr(16 * HexValue(SubSeq(s, 2, 2)) + HexValue(SubSeq(s, 3, 3)))
             \o unquote_chars(SubSeq(s, 4, Len(s)))
    ELSE SubSeq(s, 1, 1) \o unquote_chars(SubSeq(s, 2, Len(s)))

\* The same reading, of a long string in two parts: an escape starts at a
\* "%" and ends two characters later, so the string can be cut after any
\* place that neither holds a "%" nor follows one.
RECURSIVE unquote_plus(_)
unquote_plus(s) ==
    LET mid == Len(s) \div 2
        cuts == { k \in mid..(mid + 2) :
                    /\ k < Len(s)
                    /\ SubSeq(s, k, k) # "%"
                    /\ SubSeq(s, k - 1, k - 1) # "%" }
    IN  IF Len(s) <= 6 \/ cuts = {} THEN unquote_chars(s)
        ELSE unquote_plus(SubSeq(s, 1, First(cuts)))
                 \o unquote_plus(SubSeq(s, First(cuts) + 1, Len(s)))

\* parse_qs(query): the query is cut at every "&", each piece at its first
\* "="; a piece with an empty value is dropped (keep_blank_values is off);
\* names and values are unquoted. `at` is the place of the piece, which
\* orders the values of one name.
parse_qs(query) ==
    LET cuts == Positions(query, "&") \cup {0, Len(query) + 1}
        piece(p) == SubSeq(query, p + 1, First({ q \in cuts : q > p }) - 1)
        name(text) ==
            IF Positions(text, "=") = {} THEN text
            ELSE SubSeq(text, 1, First(Positions(text, "=")) - 1)
        value(text) ==
            IF Positions(text, "=") = {} THEN ""
            ELSE SubSeq(text, First(Positions(text, "=")) + 1, Len(text))
    IN  { [at |-> p, name |-> unquote_plus(name(piece(p))),
           value |-> unquote_plus(value(piece(p)))] :
             p \in { q \in cuts : q <= Len(query) /\ value(piece(q)) # "" } }

\* `params.get(key, [""])[0]`, and request.args.get(key, "") of the Flask
\* routes: the first value of the name, or the empty string.
params_get(params, key) ==
    LET found == { f \in params : f.name = key }
    IN  IF found = {} THEN ""
        ELSE (CHOOSE f \in found : \A g \in found : f.at <= g.at).value

(***************************************************************************)
(* Configuration                                                           *)
(***************************************************************************)

CITIES == <<"sydney", "melbourne", "brisbane", "adelaide", "perth">>

CitySet == Range(CITIES)

SECRET_KEY == "change-this-in-production"

(***************************************************************************)
(* PhaseClassifier: main.classify_phase                                    *)
(***************************************************************************)

wait_phrases ==
    <<"decreasing", "may decrease", "shop around", "high point", "increasing",
      "around a high">>

buy_phrases ==
    <<"lowest point", "good time to buy", "now is a good time", "around the lowest",
      "at the lowest">>

\* The two lists checked in the other order: BUY signals first.
classify_phase_buy_first(tip_text) ==
    LET text == Lower(tip_text) IN
    IF \E i \in 1..Len(buy_phrases) : Contains(text, buy_phrases[i]) THEN "BUY"
    ELSE "WAIT"

classify_phase(tip_text) ==
    LET text == Lower(tip_text) IN
    IF \E i \in 1..Len(wait_phrases) : Contains(text, wait_phrases[i]) THEN "WAIT"
    ELSE IF \E i \in 1..Len(buy_phrases) : Contains(text, buy_phrases[i]) THEN "BUY"
    ELSE "WAIT"

(***************************************************************************)
(* TransitionDetector: the edge rule of main.main                          *)
(***************************************************************************)

\* A level-triggered rule: alert whenever the new phase is BUY.
is_alert_transition_level(prev, phase) == phase = "BUY"

\* A rule that only excludes the first observation: BUY -> BUY alerts again.
is_alert_transition_seen(prev, phase) == prev # "UNKNOWN" /\ phase = "BUY"

\* main.py:301, `if prev == "WAIT" and phase == "BUY"`.
is_alert_transition(prev, phase) == prev = "WAIT" /\ phase = "BUY"

(***************************************************************************)
(* TokenService: generate_token / verify_token of the three modules        *)
(***************************************************************************)

\* hashlib.sha256(data.encode()).digest()[:16]: a symbolic, injective digest.
sha256_16(data) == "sha256/16<" \o data \o ">"

\* The URL-safe alphabet has letters, digits, "-" and "_" only. The text of
\* a digest keeps its letters, digits and "-" and spells every other
\* character out after a "_", so that different digests keep different
\* texts and no text holds a character a URL treats specially.
B64Escapes ==
    [ch \in {"<", ">", "/", "|", "@", ".", "+", "%", " ", "_", "&", "=", "#", "?"} |->
        CASE ch = "<" -> "_l" [] ch = ">" -> "_g" [] ch = "/" -> "_s"
          [] ch = "|" -> "_p" [] ch = "@" -> "_a" [] ch = "." -> "_d"
          [] ch = "+" -> "_x" [] ch = "%" -> "_c" [] ch = " " -> "_w"
          [] ch = "_" -> "_u" [] ch = "&" -> "_n" [] ch = "=" -> "_e"
          [] ch = "#" -> "_h" [] ch = "?" -> "_q"]

RECURSIVE B64Text(_)
B64Text(s) ==
    IF Len(s) = 0 THEN ""
    ELSE IF Len(s) = 1
    THEN IF s \in DOMAIN B64Escapes THEN B64Escapes[s] ELSE s
    ELSE LET h == Len(s) \div 2
         IN  B64Text(SubSeq(s, 1, h)) \o B64Text(SubSeq(s, h + 1, Len(s)))

\* The digests of the addresses, cities and actions of the requests, with
\* their texts computed once.
B64Table ==
    [h \in { sha256_16(e \o "|" \o c \o "|" \o a \o "|" \o SECRET_KEY) :
                e \in {"a@x.io", "b@y.org", "a+b@x.io", "a b@x.io", "a%2bb@x.io"},
                c \in CitySet \cup {"darwin"},
                a \in {"confirm", "unsubscribe"} }
        |-> B64Text(h)]

\* base64.urlsafe_b64encode(hash_bytes).decode(): 16 bytes encode to 22
\* characters of the URL-safe alphabet and two padding characters.
urlsafe_b64encode(hash_bytes) ==
    (IF hash_bytes \in DOMAIN B64Table THEN B64Table[hash_bytes]
                                       ELSE B64Text(hash_bytes)) \o "=="

\* str.rstrip("=")
RECURSIVE rstrip_eq(_)
rstrip_eq(s) ==
    IF s # "" /\ SubSeq(s, Len(s), Len(s)) = "="
    THEN rstrip_eq(SubSeq(s, 1, Len(s) - 1))
    ELSE s

main_generate_token(email, city, action) ==
    LET data == email \o "|" \o city \o "|" \o action \o "|" \o SECRET_KEY
    IN  rstrip_eq(urlsafe_b64encode(sha256_16(data)))

main_verify_token(email, city, token, action) ==
    token = main_generate_token(email, city, action)

\* The data string with city and email in the other order.
signup_generate_token_swapped(email, city, action) ==
    LET data == city \o "|" \o email \o "|" \o action \o "|" \o SECRET_KEY
    IN  rstrip_eq(urlsafe_b64encode(sha256_16(data)))

signup_generate_token(email, city, action) ==
    LET data == email \o "|" \o city \o "|" \o action \o "|" \o SECRET_KEY
    IN  rstrip_eq(urlsafe_b64encode(sha256_16(data)))

handlers_generate_token(email, city, action) ==
    LET data == email \o "|" \o city \o "|" \o action \o "|" \o SECRET_KEY
    IN  rstrip_eq(urlsafe_b64encode(sha256_16(data)))

\* A verification that accepts the token of either action.
handlers_verify_token_any_action(email, city, token, action) ==
    \E a \in {"confirm", "unsubscribe"} : token = handlers_generate_token(email, city, a)

\* A verification that accepts every token.
handlers_verify_token_always(email, city, token, action) == TRUE

\* A verification that accepts the token of the action for any city.
handlers_verify_token_any_city(email, city, token, action) ==
    \E c \in CitySet : token = handlers_generate_token(email, c, action)

handlers_verify_token(email, city, token, action) ==
    token = handlers_generate_token(email, city, action)

(***************************************************************************)
(* Persistence: data/state.json and data/subscribers.json                  *)
(***************************************************************************)

\* A file that does not exist.
NoFile == [exists |-> FALSE, data |-> <<>>]

\* json.dump(obj, f) into a file: the file holds exactly obj.
WriteJson(obj) == [exists |-> TRUE, data |-> obj]

main_load_state(file) ==
    IF file.exists THEN file.data ELSE [c \in CitySet |-> "UNKNOWN"]

\* A save that keeps only the cities at the bottom of the cycle.
save_state_buy_only(state) ==
    WriteJson([c \in { k \in DOMAIN state : state[k] = "BUY" } |-> state[c]])

save_state(state) == WriteJson(state)

signup_load_state(file) == IF file.exists THEN file.data ELSE <<>>

load_subscribers(file) ==
    IF file.exists THEN file.data ELSE [c \in CitySet |-> <<>>]

save_subscribers(subscribers) == WriteJson(subscribers)

\* A membership test against the keys of the dictionary, not the city's list.
in_city_list_keys(subscribers, city, email) == email \in DOMAIN subscribers

\* `email in subscribers.get(city, [])`
in_city_list(subscribers, city, email) == email \in Range(Get(subscribers, city, <<>>))

\* list.pop(): drop the last element, whatever it is.
ListRemoveLast(seq, x) == SubSeq(seq, 1, Len(seq) - 1)

\* list.remove(x): drop the first occurrence of x.
ListRemove(seq, x) ==
    LET k == CHOOSE i \in 1..Len(seq) : seq[i] = x /\ \A j \in 1..(i - 1) : seq[j] # x
    IN  SubSeq(seq, 1, k - 1) \o SubSeq(seq, k + 1, Len(seq))

\* An assignment that starts a new dictionary with the one key.
DictSet_only_key(d, key, value) == [k \in {key} |-> value]

\* subscribers[city] = value (the key is created when missing).
DictSet(d, key, value) ==
    [k \in DOMAIN d \cup {key} |-> IF k = key THEN value ELSE d[k]]

(***************************************************************************)
(* signup.is_valid_email                                                   *)
(***************************************************************************)

Letters == CharsOf(UpperLetters) \cup CharsOf(LowerLetters)

\* [a-zA-Z0-9._%+-]
LocalChars == Letters \cup CharsOf(DigitChars) \cup {".", "_", "%", "+", "-"}

\* [a-zA-Z0-9.-]
DomainChars == Letters \cup CharsOf(DigitChars) \cup {".", "-"}

MAX_EMAIL_LEN == 254

AllIn(s, chars) == \A i \in 1..Len(s) : SubSeq(s, i, i) \in chars

\* The whole of s is local-part "@" domain "." letters{2,}.
FullMatch(s) ==
    \E at \in 2..Len(s) :
        /\ SubSeq(s, at, at) = "@"
        /\ AllIn(SubSeq(s, 1, at - 1), LocalChars)
        /\ \E dot \in (at + 2)..(Len(s) - 2) :
               /\ SubSeq(s, dot, dot) = "."
               /\ AllIn(SubSeq(s, at + 1, dot - 1), DomainChars)
               /\ AllIn(SubSeq(s, dot + 1, Len(s)), Letters)

\* re.match(r'^[a-zA-Z0-9._%+-]+@[a-zA-Z0-9.-]+\.[a-zA-Z]{2,}$', email):
\* `$` matches at the end and before a newline that ends the string.
PatternMatch(s) ==
    \/ FullMatch(s)
    \/ /\ s # ""
       /\ SubSeq(s, Len(s), Len(s)) = "\n"
       /\ FullMatch(SubSeq(s, 1, Len(s) - 1))

\* The validation without the length limit.
is_valid_email_no_limit(email) == PatternMatch(email)

is_valid_email(email) ==
    IF ~PatternMatch(email) THEN FALSE
    ELSE IF Len(email) > MAX_EMAIL_LEN THEN FALSE
    ELSE TRUE

(***************************************************************************)
(* Inputs                                                                  *)
(***************************************************************************)

\* The addresses that take part, as stored (lower-cased, trimmed).
AddressPool == {"a@x.io", "b@y.org"}

\* The email field of a request: an address as stored, and one that differs
\* from its stored form in letter case and surrounding whitespace.
RequestEmails == {"a@x.io", " B@Y.org "}

\* s repeated n times.
RECURSIVE Repeat(_, _)
Repeat(s, n) == IF n = 0 THEN "" ELSE s \o Repeat(s, n - 1)

\* An address of the right shape that is longer than MAX_EMAIL_LEN.
LongEmail == Repeat("abcdefghij", 25) \o "@x.io"

\* The email argument of a signup.
SignupEmails == RequestEmails \cup {"not-an-email", LongEmail}

\* The city field of a request: known, known after normalisation, unknown.
RequestCities == {"sydney", " Perth", "darwin"}

\* The addresses of the mailed links: a plain one, one with a "+" tag, and
\* one whose local part holds a "%" followed by two hex digits. The e-mail
\* pattern of signup.is_valid_email admits all three.
LinkEmails == {"a@x.io", "a+b@x.io", "a%2bb@x.io"}

\* The cities of the mailed links.
LinkCities == {"sydney", "perth"}

\* What query-string parsing makes of these addresses, and the empty
\* string an absent field is read as.
ParsedEmails == { unquote_plus(e) : e \in LinkEmails } \cup {""}

\* x.lower().strip() tabulated over the e-mail and city strings of requests.
NormalForm ==
    [s \in SignupEmails \cup RequestCities \cup AddressPool \cup CitySet
            \cup LinkEmails \cup ParsedEmails |->
        Strip(Lower(s))]

\* The arguments used as they come, neither lower-cased nor trimmed.
normalize_nothing(s) == s

\* `email = email.lower().strip()`, `city = city.lower().strip()`.
normalize(s) == NormalForm[s]

Actions == {"confirm", "unsubscribe"}

TamperedToken == "AAAAAAAAAAAAAAAAAAAAAA"

OtherAddress(email) == CHOOSE e \in AddressPool : e # email

OtherCity(city) == IF city = "sydney" THEN "perth" ELSE "sydney"

\* The token field of a request for (email, city) and an action: the token the
\* confirmation mail carries for the pair, the token an alert mail carries for
\* it, the tokens of that action mailed for another address and for another
\* city, or a forged one.
RequestTokens(raw_email, raw_city, action) ==
    LET email == normalize(raw_email)
        city == normalize(raw_city)
        issue(e, c) == IF action = "confirm"
                       THEN signup_generate_token(e, c, "confirm")
                       ELSE main_generate_token(e, c, "unsubscribe")
    IN  { signup_generate_token(email, city, "confirm"),
          main_generate_token(email, city, "unsubscribe"),
          issue(OtherAddress(email), city),
          issue(email, OtherCity(city)),
          TamperedToken }

\* What the e-mail collaborator does with one send: HTTP 200, another status,
\* or requests.post raising (timeout, transport error).
SendOutcomes == {"sent", "rejected", "raised"}

\* What it does with the sends of one run, by recipient: every send is
\* accepted, or the sends to one address fail in one of the two ways.
RunOutcomes ==
    { [e \in AddressPool |-> "sent"] }
    \cup { [e \in AddressPool |-> IF e = f THEN how ELSE "sent"] :
             f \in AddressPool, how \in {"rejected", "raised"} }

\* is_valid_email tabulated over the normalised e-mail strings of signups.
ValidEmail ==
    [e \in { normalize(s) : s \in SignupEmails \cup LinkEmails } |-> is_valid_email(e)]

\* Buying tips as the ACCC page words them (src/test_parser.py SAMPLE_TIPS).
TipLowest ==
    "prices appear to be around the lowest point of the cycle now is a good time for motorists to buy petrol"

TipHigh ==
    "while the price cycle is around a high point we encourage motorists to use fuel price apps and websites to find lower priced retailers"

TipFalling ==
    "prices are decreasing and may decrease further motorists looking to buy petrol can shop around for the lowest prices"

SAMPLE_TIPS ==
    [c \in CitySet |->
        IF c \in {"sydney", "adelaide"} THEN TipLowest
        ELSE IF c = "perth" THEN TipFalling
        ELSE TipHigh]

\* The tips dictionaries a fetched page can yield: the sample page, a page
\* with every city at the lowest point, a page with an empty tip for every
\* city, and a page on which no city section was found (no key at all).
ExtractedTips ==
    { SAMPLE_TIPS, [c \in CitySet |-> TipLowest], [c \in CitySet |-> ""], <<>> }

\* Every tip text of those pages, and the text of a city without a tip.
TipTexts == UNION { Values(tips) : tips \in ExtractedTips } \cup {""}

(***************************************************************************)
(* State                                                                   *)
(***************************************************************************)

VARIABLES
    stateFile,      \* data/state.json
    subsFile,       \* data/subscribers.json
    op,             \* the operation that ran last
    req,            \* its arguments, as passed
    result,         \* the (success, message) it returned
    raised,         \* TRUE when it ended in an uncaught exception
    trace,          \* its file writes and send attempts, in order
    run,            \* the locals of main.main, when it was a scheduled run
    stateBefore,    \* data/state.json as it was when the operation began
    subsBefore,     \* data/subscribers.json as it was when the operation began
    classified,     \* current_state of the latest run that classified
    tip,            \* a text handed to classify_phase on its own
    tip_phase,      \* what classify_phase returned for it
    used_tokens,    \* the tokens the handlers accepted before the last operation
    procs,          \* the handler invocations in progress, one per worker
    http            \* the HTTP request served last, and the response to it

vars ==
    <<stateFile, subsFile, op, req, result, raised, trace, run, stateBefore,
      subsBefore, classified, tip, tip_phase, used_tokens, procs, http>>

\* The record of accepted tokens, the invocations in progress and the HTTP
\* request served last.
auxVars == <<used_tokens, procs, http>>

\* The files and the record of the last operation.
sysVars ==
    <<stateFile, subsFile, op, req, result, raised, trace, run, stateBefore,
      subsBefore, classified>>

NoReq == [email |-> "", city |-> "", token |-> ""]

NoResult == <<FALSE, "">>

NoRun ==
    [fetched |-> FALSE, tips |-> <<>>, previous_state |-> <<>>,
     current_state |-> <<>>, transitions |-> <<>>, exit |-> 0]

\* No HTTP request was served.
NoLink == [kind |-> "", email |-> "", city |-> ""]

NoHttp ==
    [entry |-> "none", url |-> "", sent |-> {}, status |-> 0, body |-> "",
     called |-> "none", link |-> NoLink]

\* The workers that serve the confirm and unsubscribe requests.
Procs == {"first", "second"}

\* A worker that serves no request.
IdleProc ==
    [pc |-> "idle", action |-> "", email |-> "", city |-> "", token |-> "",
     subscribers |-> <<>>, stale |-> FALSE, wrote |-> FALSE, result |-> NoResult]

Init ==
    /\ stateFile = NoFile
    /\ subsFile = NoFile
    /\ op = "none"
    /\ req = NoReq
    /\ result = NoResult
    /\ raised = FALSE
    /\ trace = <<>>
    /\ run = NoRun
    /\ stateBefore = NoFile
    /\ subsBefore = NoFile
    /\ classified = <<>>
    /\ tip = ""
    /\ tip_phase = "UNKNOWN"
    /\ used_tokens = {}
    /\ procs = [p \in Procs |-> IdleProc]
    /\ http = NoHttp

\* The send attempts of a trace.
Sends(tr) == SelectSeq(tr, LAMBDA ev : ev.ev = "send")

\* A sequence of send attempts stops at the first one that raises.
RECURSIVE UntilRaise(_)
UntilRaise(attempts) ==
    IF attempts = <<>> THEN <<>>
    ELSE IF Head(attempts).outcome = "raised" THEN <<Head(attempts)>>
    ELSE <<Head(attempts)>> \o UntilRaise(Tail(attempts))

(***************************************************************************)
(* The scheduled run: main.main                                            *)
(***************************************************************************)

\* classify_phase tabulated over the tip texts of the pages.
PhaseOfTip == [t \in TipTexts |-> classify_phase(t)]

\* A classification that leaves a city without a tip UNKNOWN.
classify_cities_unknown(tips) ==
    [c \in CitySet |-> IF Get(tips, c, "") = "" THEN "UNKNOWN"
                                                 ELSE PhaseOfTip[Get(tips, c, "")]]

\* main.py:293-296, the phase of every city of CITIES.
classify_cities(tips) == [c \in CitySet |-> PhaseOfTip[Get(tips, c, "")]]

\* main.py:291-302, the triggered cities in the order of CITIES.
find_transitions(previous_state, current_state) ==
    SelectSeq(CITIES,
        LAMBDA city :
            is_alert_transition(Get(previous_state, city, "UNKNOWN"),
                                current_state[city]))

\* main.send_buy_alert: one send carrying the unsubscribe token.
send_buy_alert(email, city, outcome) ==
    [ev |-> "send", kind |-> "alert", to |-> email, city |-> city,
     token |-> main_generate_token(email, city, "unsubscribe"),
     outcome |-> Get(outcome, email, "sent")]

\* The loop with the subscriber lookup hoisted out of it: every triggered
\* city is mailed to the list of the first one.
RECURSIVE alert_loop_with_list(_, _, _)
alert_loop_with_list(transitions, city_subs, outcome) ==
    IF transitions = <<>> THEN <<>>
    ELSE [i \in 1..Len(city_subs) |->
              send_buy_alert(city_subs[i], Head(transitions), outcome)]
         \o alert_loop_with_list(Tail(transitions), city_subs, outcome)

alert_loop_hoisted(transitions, subscribers, outcome) ==
    IF transitions = <<>> THEN <<>>
    ELSE alert_loop_with_list(transitions,
                              Get(subscribers, Head(transitions), <<>>), outcome)

\* main.py:325-332, the sends of the nested loop, city by city.
RECURSIVE alert_loop(_, _, _)
alert_loop(transitions, subscribers, outcome) ==
    IF transitions = <<>> THEN <<>>
    ELSE LET city == Head(transitions)
             city_subs == Get(subscribers, city, <<>>)
         IN  [i \in 1..Len(city_subs) |-> send_buy_alert(city_subs[i], city, outcome)]
             \o alert_loop(Tail(transitions), subscribers, outcome)

\* The alerts first, save_state after the loop.
run_effects_save_last(current_state, transitions, subsfile, outcome) ==
    (IF transitions # <<>>
     THEN UntilRaise(alert_loop(transitions, load_subscribers(subsfile), outcome))
     ELSE <<>>)
    \o <<[ev |-> "save_state", data |-> current_state]>>

\* main.py:318 and 321-334: save_state, then the alerts.
run_effects(current_state, transitions, subsfile, outcome) ==
    <<[ev |-> "save_state", data |-> current_state]>>
    \o (IF transitions # <<>>
        THEN UntilRaise(alert_loop(transitions, load_subscribers(subsfile), outcome))
        ELSE <<>>)

\* A run that writes the registry back after it has loaded it.
Main_rewrites_registry(fetch_ok, tips, outcome) ==
    LET previous_state == main_load_state(stateFile)
        current_state == classify_cities(tips)
        transitions == find_transitions(previous_state, current_state)
        effects == run_effects(current_state, transitions, subsFile, outcome)
        crashed == \E i \in 1..Len(effects) :
                       effects[i].ev = "send" /\ effects[i].outcome = "raised"
    IN  /\ op' = "run"
        /\ req' = NoReq
        /\ result' = NoResult
        /\ stateBefore' = stateFile
        /\ subsBefore' = subsFile
        /\ UNCHANGED <<tip, tip_phase>>
        /\ IF ~fetch_ok
           THEN /\ run' = [NoRun EXCEPT !.exit = 1]
                /\ raised' = FALSE
                /\ trace' = <<>>
                /\ UNCHANGED <<stateFile, subsFile, classified>>
           ELSE /\ run' = [fetched |-> TRUE, tips |-> tips,
                           previous_state |-> previous_state,
                           current_state |-> current_state,
                           transitions |-> transitions, exit |-> 0]
                /\ raised' = crashed
                /\ trace' = effects
                /\ stateFile' = save_state(current_state)
                /\ subsFile' = IF transitions # <<>> /\ ~crashed
                               THEN save_subscribers(load_subscribers(subsFile))
                               ELSE subsFile
                /\ classified' = current_state

\* A run that treats a failed fetch as an empty page and carries on.
Main_empty_page_on_failure(fetch_ok, tips, outcome) ==
    LET previous_state == main_load_state(stateFile)
        current_state == classify_cities(tips)
        transitions == find_transitions(previous_state, current_state)
        effects == run_effects(current_state, transitions, subsFile, outcome)
    IN  /\ op' = "run"
        /\ req' = NoReq
        /\ result' = NoResult
        /\ stateBefore' = stateFile
        /\ subsBefore' = subsFile
        /\ subsFile' = subsFile
        /\ UNCHANGED <<tip, tip_phase>>
        /\ run' = [fetched |-> fetch_ok, tips |-> tips,
                   previous_state |-> previous_state,
                   current_state |-> current_state,
                   transitions |-> transitions, exit |-> IF fetch_ok THEN 0 ELSE 1]
        /\ raised' = \E i \in 1..Len(effects) :
                         effects[i].ev = "send" /\ effects[i].outcome = "raised"
        /\ trace' = effects
        /\ stateFile' = save_state(current_state)
        /\ classified' = current_state

Main(fetch_ok, tips, outcome) ==
    LET previous_state == main_load_state(stateFile)
        current_state == classify_cities(tips)
        transitions == find_transitions(previous_state, current_state)
        effects == run_effects(current_state, transitions, subsFile, outcome)
        crashed == \E i \in 1..Len(effects) :
                       effects[i].ev = "send" /\ effects[i].outcome = "raised"
    IN  /\ op' = "run"
        /\ req' = NoReq
        /\ result' = NoResult
        /\ stateBefore' = stateFile
        /\ subsBefore' = subsFile
        /\ subsFile' = subsFile
        /\ UNCHANGED <<tip, tip_phase>>
        /\ IF ~fetch_ok
           THEN \* fetch_accc_page raised: `return 1`
                /\ run' = [NoRun EXCEPT !.exit = 1]
                /\ raised' = FALSE
                /\ trace' = <<>>
                /\ UNCHANGED <<stateFile, classified>>
           ELSE /\ run' = [fetched |-> TRUE, tips |-> tips,
                           previous_state |-> previous_state,
                           current_state |-> current_state,
                           transitions |-> transitions, exit |-> 0]
                /\ raised' = crashed
                /\ trace' = effects
                /\ stateFile' = save_state(current_state)
                /\ classified' = current_state

(***************************************************************************)
(* Signup: signup.process_signup                                           *)
(***************************************************************************)

\* signup.send_confirmation_email: one send carrying the confirm token; the
\* status note depends on the phase signup.load_state gives for the city.
send_confirmation_email(email, city, statefile, outcome) ==
    [ev |-> "send", kind |-> "confirmation", to |-> email, city |-> city,
     token |-> signup_generate_token(email, city, "confirm"),
     note |-> Get(signup_load_state(statefile), city, "UNKNOWN"),
     outcome |-> outcome]

\* The (success, message) of process_signup, the sends it attempts, and
\* whether it raised (requests.post raising goes through process_signup).
process_signup(raw_email, raw_city, subsfile, statefile, outcome) ==
    LET email == normalize(raw_email)
        city == normalize(raw_city)
        subscribers == load_subscribers(subsfile)
    IN  IF ~ValidEmail[email]
        THEN [result |-> <<FALSE, "Invalid email address">>, sends |-> <<>>,
              raised |-> FALSE]
        ELSE IF city \notin CitySet
        THEN [result |-> <<FALSE, "Invalid city. Choose from: sydney, melbourne, brisbane, adelaide, perth">>,
              sends |-> <<>>, raised |-> FALSE]
        ELSE IF in_city_list(subscribers, city, email)
        THEN [result |-> <<FALSE, "This email is already subscribed">>,
              sends |-> <<>>, raised |-> FALSE]
        ELSE LET send == send_confirmation_email(email, city, statefile, outcome)
             IN  IF outcome = "raised"
                 THEN [result |-> NoResult, sends |-> <<send>>, raised |-> TRUE]
                 ELSE IF outcome = "sent"
                 THEN [result |-> <<TRUE, "Check your inbox to confirm">>,
                       sends |-> <<send>>, raised |-> FALSE]
                 ELSE [result |-> <<FALSE, "Failed to send confirmation email">>,
                       sends |-> <<send>>, raised |-> FALSE]

Signup(raw_email, raw_city, outcome) ==
    LET r == process_signup(raw_email, raw_city, subsFile, stateFile, outcome)
    IN  /\ op' = "signup"
        /\ req' = [email |-> raw_email, city |-> raw_city, token |-> ""]
        /\ result' = r.result
        /\ raised' = r.raised
        /\ trace' = r.sends
        /\ run' = NoRun
        /\ stateBefore' = stateFile
        /\ subsBefore' = subsFile
        /\ UNCHANGED <<stateFile, subsFile, classified, tip, tip_phase>>

(***************************************************************************)
(* Confirm and unsubscribe: api/handlers.py                                *)
(***************************************************************************)

\* A confirm that looks the address up before it verifies the token.
confirm_subscription_lookup_first(raw_email, raw_city, token, subsfile) ==
    LET email == normalize(raw_email)
        city == normalize(raw_city)
        subscribers == load_subscribers(subsfile)
    IN  IF city \notin CitySet
        THEN [result |-> <<FALSE, "Invalid city">>, file |-> subsfile, writes |-> <<>>]
        ELSE IF in_city_list(subscribers, city, email)
        THEN [result |-> <<TRUE, "You're already subscribed">>,
              file |-> subsfile, writes |-> <<>>]
        ELSE IF ~handlers_verify_token(email, city, token, "confirm")
        THEN [result |-> <<FALSE, "Invalid or expired confirmation link">>,
              file |-> subsfile, writes |-> <<>>]
        ELSE LET added == DictSet(subscribers, city,
                                  Append(Get(subscribers, city, <<>>), email))
             IN  [result |-> <<TRUE, "You're subscribed! You'll only hear from us when prices hit bottom.">>,
                  file |-> save_subscribers(added),
                  writes |-> <<[ev |-> "save_subscribers", data |-> added]>>]

\* The (success, message) of confirm_subscription and the file it leaves.
confirm_subscription(raw_email, raw_city, token, subsfile) ==
    LET email == normalize(raw_email)
        city == normalize(raw_city)
        subscribers == load_subscribers(subsfile)
    IN  IF city \notin CitySet
        THEN [result |-> <<FALSE, "Invalid city">>, file |-> subsfile, writes |-> <<>>]
        ELSE IF ~handlers_verify_token(email, city, token, "confirm")
        THEN [result |-> <<FALSE, "Invalid or expired confirmation link">>,
              file |-> subsfile, writes |-> <<>>]
        ELSE IF in_city_list(subscribers, city, email)
        THEN [result |-> <<TRUE, "You're already subscribed">>,
              file |-> subsfile, writes |-> <<>>]
        ELSE LET added == DictSet(subscribers, city,
                                  Append(Get(subscribers, city, <<>>), email))
             IN  [result |-> <<TRUE, "You're subscribed! You'll only hear from us when prices hit bottom.">>,
                  file |-> save_subscribers(added),
                  writes |-> <<[ev |-> "save_subscribers", data |-> added]>>]

\* The (success, message) of unsubscribe and the file it leaves.
unsubscribe(raw_email, raw_city, token, subsfile) ==
    LET email == normalize(raw_email)
        city == normalize(raw_city)
        subscribers == load_subscribers(subsfile)
    IN  IF city \notin CitySet
        THEN [result |-> <<FALSE, "Invalid city">>, file |-> subsfile, writes |-> <<>>]
        ELSE IF ~handlers_verify_token(email, city, token, "unsubscribe")
        THEN [result |-> <<FALSE, "Invalid unsubscribe link">>,
              file |-> subsfile, writes |-> <<>>]
        ELSE IF city \in DOMAIN subscribers /\ email \in Range(subscribers[city])
        THEN LET removed == [subscribers EXCEPT ![city] = ListRemove(@, email)]
             IN  [result |-> <<TRUE, "You've been unsubscribed">>,
                  file |-> save_subscribers(removed),
                  writes |-> <<[ev |-> "save_subscribers", data |-> removed]>>]
        ELSE [result |-> <<TRUE, "You weren't subscribed">>,
              file |-> subsfile, writes |-> <<>>]

\* A confirm that turns down a token the handlers have accepted before.
Confirm_single_use(raw_email, raw_city, token) ==
    LET r == IF token \in used_tokens
             THEN [result |-> <<FALSE, "Invalid or expired confirmation link">>,
                   file |-> subsFile, writes |-> <<>>]
             ELSE confirm_subscription(raw_email, raw_city, token, subsFile)
    IN  /\ op' = "confirm"
        /\ req' = [email |-> raw_email, city |-> raw_city, token |-> token]
        /\ result' = r.result
        /\ raised' = FALSE
        /\ trace' = r.writes
        /\ run' = NoRun
        /\ stateBefore' = stateFile
        /\ subsBefore' = subsFile
        /\ subsFile' = r.file
        /\ UNCHANGED <<stateFile, classified, tip, tip_phase>>

Confirm(raw_email, raw_city, token) ==
    LET r == confirm_subscription(raw_email, raw_city, token, subsFile)
    IN  /\ op' = "confirm"
        /\ req' = [email |-> raw_email, city |-> raw_city, token |-> token]
        /\ result' = r.result
        /\ raised' = FALSE
        /\ trace' = r.writes
        /\ run' = NoRun
        /\ stateBefore' = stateFile
        /\ subsBefore' = subsFile
        /\ subsFile' = r.file
        /\ UNCHANGED <<stateFile, classified, tip, tip_phase>>

Unsubscribe(raw_email, raw_city, token) ==
    LET r == unsubscribe(raw_email, raw_city, token, subsFile)
    IN  /\ op' = "unsubscribe"
        /\ req' = [email |-> raw_email, city |-> raw_city, token |-> token]
        /\ result' = r.result
        /\ raised' = FALSE
        /\ trace' = r.writes
        /\ run' = NoRun
        /\ stateBefore' = stateFile
        /\ subsBefore' = subsFile
        /\ subsFile' = r.file
        /\ UNCHANGED <<stateFile, classified, tip, tip_phase>>

(***************************************************************************)
(* Specification                                                           *)
(***************************************************************************)

\* The page fetch fails, or it succeeds and the page yields some tips.
RunStep ==
    /\ \/ Main(FALSE, <<>>, <<>>)
       \/ \E tips \in ExtractedTips, outcome \in RunOutcomes : Main(TRUE, tips, outcome)
    /\ UNCHANGED auxVars

SignupStep ==
    /\ \E e \in SignupEmails, c \in RequestCities, outcome \in SendOutcomes :
           Signup(e, c, outcome)
    /\ UNCHANGED auxVars

ConfirmStep ==
    /\ \E e \in RequestEmails, c \in RequestCities :
           \E t \in RequestTokens(e, c, "confirm") : Confirm(e, c, t)
    /\ UNCHANGED auxVars

UnsubscribeStep ==
    /\ \E e \in RequestEmails, c \in RequestCities :
           \E t \in RequestTokens(e, c, "unsubscribe") : Unsubscribe(e, c, t)
    /\ UNCHANGED auxVars

Next == RunStep \/ SignupStep \/ ConfirmStep \/ UnsubscribeStep

Spec == Init /\ [][Next]_vars

(***************************************************************************)
(* Links that are followed again: the handlers with the tokens they issued *)
(***************************************************************************)

\* The token the last operation accepted, if it was a handler that did.
AcceptedToken ==
    IF op \in {"confirm", "unsubscribe"} /\ result[1] THEN {req.token} ELSE {}

\* A confirmation link is followed, for the first time or again.
FollowConfirmLink ==
    /\ \E e \in RequestEmails, c \in RequestCities :
           Confirm(e, c, handlers_generate_token(normalize(e), normalize(c), "confirm"))
    /\ used_tokens' = used_tokens \cup AcceptedToken
    /\ UNCHANGED <<procs, http>>

\* An unsubscribe link is followed, for the first time or again.
FollowUnsubscribeLink ==
    /\ \E e \in RequestEmails, c \in RequestCities :
           Unsubscribe(e, c, main_generate_token(normalize(e), normalize(c), "unsubscribe"))
    /\ used_tokens' = used_tokens \cup AcceptedToken
    /\ UNCHANGED <<procs, http>>

NextLinks == FollowConfirmLink \/ FollowUnsubscribeLink

SpecLinks == Init /\ [][NextLinks]_vars

(***************************************************************************)
(* Invocations that overlap: each handler call reads the registry file     *)
(* once (load_subscribers) and, when it changes the list, writes the file  *)
(* once (save_subscribers); the calls of two workers interleave at these   *)
(* two points                                                              *)
(***************************************************************************)

\* The tokens a worker is called with: the one issued for the request, and
\* a forged one.
CallTokens(raw_email, raw_city, action) ==
    {handlers_generate_token(normalize(raw_email), normalize(raw_city), action),
     TamperedToken}

\* A worker that has returned.
Returned(email, city, token, action, outcome, written) ==
    [pc |-> "done", action |-> action, email |-> email, city |-> city,
     token |-> token, subscribers |-> <<>>, stale |-> FALSE, wrote |-> written,
     result |-> outcome]

\* handlers.py:62-73 and 95-106: normalise, validate the city, verify the
\* token, and read the registry file. A call turned down before the read
\* leaves only its result behind.
BeginCall(p, action, raw_email, raw_city, token) ==
    LET email == normalize(raw_email)
        city == normalize(raw_city)
    IN  /\ procs[p].pc # "loaded"
        /\ procs' = [procs EXCEPT ![p] =
               IF city \notin CitySet
               THEN Returned("", "", "", action, <<FALSE, "Invalid city">>, FALSE)
               ELSE IF ~handlers_verify_token(email, city, token, action)
               THEN Returned("", "", "", action,
                             <<FALSE, IF action = "confirm"
                                      THEN "Invalid or expired confirmation link"
                                      ELSE "Invalid unsubscribe link">>, FALSE)
               ELSE [pc |-> "loaded", action |-> action, email |-> email,
                     city |-> city, token |-> token,
                     subscribers |-> load_subscribers(subsFile),
                     stale |-> FALSE, wrote |-> FALSE, result |-> NoResult]]
        /\ UNCHANGED <<sysVars, tip, tip_phase, used_tokens, http>>

\* The workers whose copy of the registry a write makes out of date.
Outdated(p) == { q \in Procs \ {p} : procs[q].pc = "loaded" }

\* handlers.py:75-87 and 108-114: look the address up in the copy read
\* before, change the copy and write the whole of it back.
FinishCall(p) ==
    LET r == procs[p]
        listed == IF r.action = "confirm"
                  THEN in_city_list(r.subscribers, r.city, r.email)
                  ELSE /\ r.city \in DOMAIN r.subscribers
                       /\ r.email \in Range(r.subscribers[r.city])
        changed == IF r.action = "confirm"
                   THEN DictSet(r.subscribers, r.city,
                                Append(Get(r.subscribers, r.city, <<>>), r.email))
                   ELSE [r.subscribers EXCEPT ![r.city] = ListRemove(@, r.email)]
        writes == IF r.action = "confirm" THEN ~listed ELSE listed
        outcome == IF r.action = "confirm"
                   THEN IF listed
                        THEN <<TRUE, "You're already subscribed">>
                        ELSE <<TRUE, "You're subscribed! You'll only hear from us when prices hit bottom.">>
                   ELSE IF listed
                        THEN <<TRUE, "You've been unsubscribed">>
                        ELSE <<TRUE, "You weren't subscribed">>
    IN  /\ r.pc = "loaded"
        /\ subsFile' = IF writes THEN save_subscribers(changed) ELSE subsFile
        /\ procs' = [q \in Procs |->
               IF q = p
               THEN [Returned(r.email, r.city, r.token, r.action, outcome, writes)
                        EXCEPT !.stale = r.stale]
               ELSE IF writes /\ q \in Outdated(p)
               THEN [procs[q] EXCEPT !.stale = TRUE]
               ELSE procs[q]]
        /\ UNCHANGED <<stateFile, op, req, result, raised, trace, run,
                       stateBefore, subsBefore, classified, tip, tip_phase,
                       used_tokens, http>>

BeginStep ==
    \E p \in Procs, action \in Actions, e \in RequestEmails, c \in RequestCities :
        \E t \in CallTokens(e, c, action) : BeginCall(p, action, e, c, t)

FinishStep == \E p \in Procs : FinishCall(p)

NextConcurrent == BeginStep \/ FinishStep

SpecConcurrent == Init /\ [][NextConcurrent]_vars

(***************************************************************************)
(* HTTP entry points of api/handlers.py: the serverless handler and the    *)
(* two routes of the Flask application, served the links the mails carry   *)
(* and requests that lack a field                                          *)
(***************************************************************************)

SITE_URL == "https://yourusername.github.io/fuel-alert"

\* signup.py:104: the values are put into the URL as they are.
confirm_url(email, city, token) ==
    SITE_URL \o "/confirm.html?email=" \o email \o "&city=" \o city
             \o "&token=" \o token

\* main.py:225: likewise.
unsubscribe_url(email, city, token) ==
    SITE_URL \o "/unsubscribe.html?email=" \o email \o "&city=" \o city
             \o "&token=" \o token

\* The link of the confirmation mail (signup.send_confirmation_email) and
\* the link of the alert mail (main.send_buy_alert) for a subscriber.
MailedLink(action, email, city) ==
    IF action = "confirm"
    THEN confirm_url(email, city, signup_generate_token(email, city, "confirm"))
    ELSE unsubscribe_url(email, city, main_generate_token(email, city, "unsubscribe"))

\* The paths of the entry points.
HandlerPath == "/api/handlers"

RoutePath(action) == IF action = "confirm" THEN "/confirm" ELSE "/unsubscribe"

\* A query string written from a list of (name, value) fields.
RECURSIVE QueryOf(_)
QueryOf(fields) ==
    IF Len(fields) = 0 THEN ""
    ELSE Head(fields)[1] \o "=" \o Head(fields)[2]
            \o (IF Len(fields) > 1 THEN "&" ELSE "") \o QueryOf(Tail(fields))

\* A list without its n-th element; without none when n is 0.
Without(fields, n) ==
    SelectSeq([i \in 1..Len(fields) |-> <<i, fields[i]>>], LAMBDA f : f[1] # n)

\* The addresses signup.process_signup accepts for a link.
AcceptedLinkEmails == { e \in LinkEmails : ValidEmail[normalize(e)] }

\* The requests that carry the query string of a mailed link: to the
\* serverless handler with the action named, to the Flask route of the
\* action as the link has it.
LinkRequests(entry) ==
    { [url |-> IF entry = "handler"
               THEN HandlerPath \o "?action=" \o a \o "&" \o UrlQuery(MailedLink(a, e, c))
               ELSE RoutePath(a) \o "?" \o UrlQuery(MailedLink(a, e, c)),
       sent |-> {"action", "email", "city", "token"},
       link |-> [kind |-> a, email |-> e, city |-> c]] :
          a \in (IF entry = "handler" THEN Actions
                 ELSE IF entry = "confirm_route" THEN {"confirm"} ELSE {"unsubscribe"}),
          e \in AcceptedLinkEmails, c \in LinkCities }

\* The fields of an action request for a stored address, with its token.
RequestFields(action, email, city) ==
    <<<<"action", action>>, <<"email", email>>, <<"city", city>>,
      <<"token", handlers_generate_token(email, city, action)>>>>

\* The requests that lack at most one of the fields. The path of a Flask
\* route names the action, and its query has the other three fields.
PartialRequests(entry) ==
    { LET all == RequestFields(a, "a@x.io", "sydney")
          fields == IF entry = "handler" THEN all ELSE Tail(all)
          kept == Without(fields, n)
      IN  [url |-> (IF entry = "handler" THEN HandlerPath
                    ELSE IF entry = "confirm_route" THEN RoutePath("confirm")
                    ELSE RoutePath("unsubscribe"))
                        \o "?" \o QueryOf([i \in 1..Len(kept) |-> kept[i][2]]),
           sent |-> { kept[i][2][1] : i \in 1..Len(kept) }
                        \cup (IF entry = "handler" THEN {} ELSE {"action"}),
           link |-> NoLink] :
          a \in (IF entry = "handler" THEN Actions \cup {"delete"}
                 ELSE IF entry = "confirm_route" THEN {"confirm"} ELSE {"unsubscribe"}),
          n \in 0..4 }

\* handlers.handler: the four parameters are read from the query string;
\* a request that lacks one is answered 400 before any call, an action that
\* is neither confirm nor unsubscribe is answered 400 as well.
handler(url) ==
    LET params == parse_qs(UrlQuery(url))
        action == params_get(params, "action")
        email == params_get(params, "email")
        city == params_get(params, "city")
        token == params_get(params, "token")
        args == [email |-> email, city |-> city, token |-> token]
    IN  IF action = "" \/ email = "" \/ city = "" \/ token = ""
        THEN [status |-> 400, body |-> "Missing parameters", called |-> "none",
              args |-> NoReq]
        ELSE IF action = "confirm"
        THEN [status |-> 200, body |-> "", called |-> "confirm_subscription",
              args |-> args]
        ELSE IF action = "unsubscribe"
        THEN [status |-> 200, body |-> "", called |-> "unsubscribe", args |-> args]
        ELSE [status |-> 400, body |-> "Invalid action", called |-> "none",
              args |-> NoReq]

\* create_flask_app.confirm_route: the three parameters are read with the
\* empty string as default and handed to confirm_subscription.
confirm_route(url) ==
    LET args == parse_qs(UrlQuery(url))
    IN  [status |-> 200, body |-> "", called |-> "confirm_subscription",
         args |-> [email |-> params_get(args, "email"),
                   city |-> params_get(args, "city"),
                   token |-> params_get(args, "token")]]

\* create_flask_app.unsubscribe_route: likewise, handed to unsubscribe.
unsubscribe_route(url) ==
    LET args == parse_qs(UrlQuery(url))
    IN  [status |-> 200, body |-> "", called |-> "unsubscribe",
         args |-> [email |-> params_get(args, "email"),
                   city |-> params_get(args, "city"),
                   token |-> params_get(args, "token")]]

\* A request answered without a call of confirm_subscription or unsubscribe.
Rejected ==
    /\ op' = "rejected"
    /\ req' = NoReq
    /\ result' = NoResult
    /\ raised' = FALSE
    /\ trace' = <<>>
    /\ run' = NoRun
    /\ stateBefore' = stateFile
    /\ subsBefore' = subsFile
    /\ UNCHANGED <<stateFile, subsFile, classified, tip, tip_phase>>

\* An entry point serves a request: the function it calls, if any, acts on
\* the registry, and the page it answers with carries the function's message.
Serve(entry, rq, r) ==
    /\ IF r.called = "confirm_subscription"
       THEN Confirm(r.args.email, r.args.city, r.args.token)
       ELSE IF r.called = "unsubscribe"
       THEN Unsubscribe(r.args.email, r.args.city, r.args.token)
       ELSE Rejected
    /\ http' = [entry |-> entry, url |-> rq.url, sent |-> rq.sent,
                status |-> r.status,
                body |-> IF r.called = "none" THEN r.body ELSE result'[2],
                called |-> r.called, link |-> rq.link]
    /\ UNCHANGED <<used_tokens, procs>>

HandlerRequest ==
    \E rq \in LinkRequests("handler") \cup PartialRequests("handler") :
        Serve("handler", rq, handler(rq.url))

ConfirmRouteRequest ==
    \E rq \in LinkRequests("confirm_route") \cup PartialRequests("confirm_route") :
        Serve("confirm_route", rq, confirm_route(rq.url))

UnsubscribeRouteRequest ==
    \E rq \in LinkRequests("unsubscribe_route") \cup PartialRequests("unsubscribe_route") :
        Serve("unsubscribe_route", rq, unsubscribe_route(rq.url))

NextRequests == HandlerRequest \/ ConfirmRouteRequest \/ UnsubscribeRouteRequest

SpecRequests == Init /\ [][NextRequests]_vars

(***************************************************************************)
(* The classifier on its own: texts put together from pieces of tips       *)
(***************************************************************************)

MaxFragments == 3

\* Pieces of buying tips; phrases of both lists arise across the joints.
TipFragments ==
    {"prices are ", "Decreasing ", "shop ", "around", " a high", " the lowest",
     " Point", "at"}

\* The texts made of at most n fragments.
RECURSIVE TextsUpTo(_)
TextsUpTo(n) ==
    IF n = 0 THEN {""}
    ELSE LET shorter == TextsUpTo(n - 1)
         IN  shorter \cup { t \o f : t \in shorter, f \in TipFragments }

TipInputs == TextsUpTo(MaxFragments)

InitClassify ==
    /\ stateFile = NoFile
    /\ subsFile = NoFile
    /\ op = "none"
    /\ req = NoReq
    /\ result = NoResult
    /\ raised = FALSE
    /\ trace = <<>>
    /\ run = NoRun
    /\ stateBefore = NoFile
    /\ subsBefore = NoFile
    /\ classified = <<>>
    /\ tip \in TipInputs
    /\ tip_phase = "UNKNOWN"
    /\ used_tokens = {}
    /\ procs = [p \in Procs |-> IdleProc]
    /\ http = NoHttp

ClassifyText ==
    /\ tip_phase = "UNKNOWN"
    /\ tip_phase' = classify_phase(tip)
    /\ UNCHANGED <<sysVars, tip, auxVars>>

SpecClassify == InitClassify /\ [][ClassifyText]_vars

(***************************************************************************)
(* Properties                                                              *)
(***************************************************************************)

\* The phase a file holds for a city; UNKNOWN without a file or an entry.
PersistedPhase(file, city) ==
    IF file.exists /\ city \in DOMAIN file.data THEN file.data[city] ELSE "UNKNOWN"

\* The addresses a file lists for a city.
Members(file, city) ==
    IF file.exists /\ city \in DOMAIN file.data THEN Range(file.data[city]) ELSE {}

\* The run fetched its page and classified.
RunClassified == op = "run" /\ run.fetched

\* The send attempts of the last operation that concern a city.
SendsFor(city) == { i \in 1..Len(trace) : trace[i].ev = "send" /\ trace[i].city = city }

\* C1: a scheduled run puts a city in its transitions list if and only if
\* the phase persisted for it before the run is WAIT and the phase the run
\* classifies is BUY; so never for UNKNOWN -> BUY (first run, no state file,
\* no entry), BUY -> BUY, WAIT -> WAIT or any new phase WAIT.
C1_TriggeredIffWaitToBuy ==
    RunClassified =>
        \A city \in CitySet :
            (city \in Range(run.transitions))
                <=> (/\ PersistedPhase(stateBefore, city) = "WAIT"
                     /\ run.current_state[city] = "BUY"
                     /\ PhaseOfTip[Get(run.tips, city, "")] = "BUY")

\* A run that triggers perth (WAIT -> BUY) while sydney stays BUY -> BUY.
C1_Witness ==
    /\ RunClassified
    /\ "perth" \in Range(run.transitions)
    /\ PersistedPhase(stateBefore, "sydney") = "BUY"
    /\ run.current_state["sydney"] = "BUY"
    /\ "sydney" \notin Range(run.transitions)

\* C2: a run that classifies a city BUY attempts no send for it when the
\* latest run that classified before it also classified it BUY, and no run
\* attempts two sends to one address for one city; so a BUY streak notifies
\* each subscriber at most once and a failed send is not tried again.
C2_NoAlertWhileBuyPersists ==
    [][ (op' = "run" /\ run'.fetched) =>
            /\ \A city \in CitySet :
                   (/\ city \in DOMAIN classified
                    /\ classified[city] = "BUY"
                    /\ run'.current_state[city] = "BUY")
                   => ~ \E i \in 1..Len(trace') :
                           trace'[i].ev = "send" /\ trace'[i].city = city
            /\ \A i, j \in 1..Len(trace') :
                   (/\ i < j
                    /\ trace'[i].ev = "send"
                    /\ trace'[j].ev = "send"
                    /\ trace'[i].city = trace'[j].city)
                   => trace'[i].to # trace'[j].to ]_vars

\* A run in which sydney stays BUY while sydney has subscribers; the run
\* sends nothing for sydney.
C2_Witness ==
    /\ RunClassified
    /\ run.previous_state["sydney"] = "BUY"
    /\ run.current_state["sydney"] = "BUY"
    /\ Members(subsBefore, "sydney") # {}
    /\ SendsFor("sydney") = {}

\* Some phrase of a list occurs in the lower-cased text.
HasPhrase(text, phrases) ==
    LET low == Lower(text) IN
    \E k \in 1..Len(phrases) : \E i \in 0..(Len(low) - Len(phrases[k])) :
        SubSeq(low, i + 1, i + Len(phrases[k])) = phrases[k]

\* C3: classify_phase returns BUY if and only if the lower-cased text has
\* no WAIT phrase and has a BUY phrase, and WAIT otherwise; a text with both
\* kinds gives WAIT, and the empty text and texts with neither give WAIT.
C3_BuyIffNoWaitAndSomeBuy ==
    tip_phase # "UNKNOWN" =>
        /\ tip_phase \in {"WAIT", "BUY"}
        /\ tip_phase = "BUY" <=> (/\ ~HasPhrase(tip, wait_phrases)
                                  /\ HasPhrase(tip, buy_phrases))
        /\ tip = "" => tip_phase = "WAIT"

\* A text with a WAIT phrase and a BUY phrase, classified WAIT.
C3_Witness ==
    /\ tip_phase = "WAIT"
    /\ HasPhrase(tip, wait_phrases)
    /\ HasPhrase(tip, buy_phrases)

\* The request of the last operation, normalised as the handlers do.
ReqEmail == normalize(req.email)

ReqCity == normalize(req.city)

\* The messages of the handlers.
MsgInvalidCity == "Invalid city"

MsgBadConfirmLink == "Invalid or expired confirmation link"

MsgBadUnsubscribeLink == "Invalid unsubscribe link"

MsgAlreadySubscribed == "You're already subscribed"

MsgUnsubscribed == "You've been unsubscribed"

MsgNotSubscribed == "You weren't subscribed"

\* The token the data string of the three modules gives for a triple.
TokenOf(email, city, action) ==
    rstrip_eq(urlsafe_b64encode(sha256_16(
        email \o "|" \o city \o "|" \o action \o "|" \o SECRET_KEY)))

\* C4: every token the system mails verifies where it is presented: the
\* confirm token of a confirmation mail passes confirm_subscription for its
\* (address, city), the unsubscribe token of an alert passes unsubscribe for
\* its (address, city), and issue / verify agree across the three modules for
\* every address, every known city and both actions.
C4_TokenRoundTrip ==
    /\ \A i \in 1..Len(trace) :
           trace[i].ev = "send" =>
               IF trace[i].kind = "confirmation"
               THEN /\ handlers_verify_token(normalize(trace[i].to),
                                             normalize(trace[i].city),
                                             trace[i].token, "confirm")
                    /\ confirm_subscription(trace[i].to, trace[i].city,
                                            trace[i].token, subsFile).result[1]
               ELSE /\ handlers_verify_token(normalize(trace[i].to),
                                             normalize(trace[i].city),
                                             trace[i].token, "unsubscribe")
                    /\ unsubscribe(trace[i].to, trace[i].city, trace[i].token,
                                   subsFile).result = <<TRUE, MsgUnsubscribed>>
    /\ \A e \in AddressPool, c \in CitySet, a \in Actions :
           /\ handlers_verify_token(e, c, handlers_generate_token(e, c, a), a)
           /\ handlers_verify_token(e, c, signup_generate_token(e, c, a), a)
           /\ handlers_verify_token(e, c, main_generate_token(e, c, a), a)
           /\ main_verify_token(e, c, main_generate_token(e, c, a), a)
           /\ main_verify_token(e, c, signup_generate_token(e, c, a), a)

\* A signup whose confirmation mail was sent, carrying a confirm token.
C4_Witness ==
    /\ op = "signup"
    /\ result[1]
    /\ Len(trace) = 1
    /\ trace[1].kind = "confirmation"
    /\ trace[1].token = TokenOf(ReqEmail, ReqCity, "confirm")

\* C5: a confirm token presented to unsubscribe, and an unsubscribe token
\* presented to confirm_subscription, for the same (email, city), does not
\* verify: the call returns the failure result and leaves the registry as
\* it was.
C5_ActionScoped ==
    /\ \A e \in AddressPool, c \in CitySet :
           /\ ~handlers_verify_token(e, c, signup_generate_token(e, c, "confirm"),
                                     "unsubscribe")
           /\ ~handlers_verify_token(e, c, main_generate_token(e, c, "unsubscribe"),
                                     "confirm")
    /\ (op = "unsubscribe" /\ ReqCity \in CitySet
            /\ req.token = TokenOf(ReqEmail, ReqCity, "confirm"))
        => result = <<FALSE, MsgBadUnsubscribeLink>> /\ subsFile = subsBefore
    /\ (op = "confirm" /\ ReqCity \in CitySet
            /\ req.token = TokenOf(ReqEmail, ReqCity, "unsubscribe"))
        => result = <<FALSE, MsgBadConfirmLink>> /\ subsFile = subsBefore

\* A subscriber's confirm token presented to unsubscribe: the address stays.
C5_Witness ==
    /\ op = "unsubscribe"
    /\ ReqCity \in CitySet
    /\ req.token = TokenOf(ReqEmail, ReqCity, "confirm")
    /\ ReqEmail \in Members(subsBefore, ReqCity)
    /\ ReqEmail \in Members(subsFile, ReqCity)

\* Every key of the two versions of the registry, and every known city.
RegistryKeys ==
    CitySet \cup (IF subsFile.exists THEN DOMAIN subsFile.data ELSE {})
            \cup (IF subsBefore.exists THEN DOMAIN subsBefore.data ELSE {})

\* C6: an address enters a city's list only through a confirm_subscription
\* whose token verifies for (address, city, confirm) and leaves it only
\* through an unsubscribe whose token verifies for (address, city,
\* unsubscribe); runs, signups and calls with a city outside the known set
\* leave the registry file as it was.
C6_RegistryChangesOnlyByVerifiedTokens ==
    /\ \A c \in RegistryKeys :
           /\ \A a \in Members(subsFile, c) \ Members(subsBefore, c) :
                  /\ op = "confirm"
                  /\ ReqEmail = a
                  /\ ReqCity = c
                  /\ c \in CitySet
                  /\ req.token = TokenOf(a, c, "confirm")
           /\ \A a \in Members(subsBefore, c) \ Members(subsFile, c) :
                  /\ op = "unsubscribe"
                  /\ ReqEmail = a
                  /\ ReqCity = c
                  /\ c \in CitySet
                  /\ req.token = TokenOf(a, c, "unsubscribe")
    /\ op \in {"none", "run", "signup"} => subsFile = subsBefore
    /\ (op \in {"confirm", "unsubscribe"} /\ ReqCity \notin CitySet)
        => subsFile = subsBefore /\ result = <<FALSE, MsgInvalidCity>>

\* An unsubscribe that removed an address (which a confirm had added).
C6_Witness ==
    /\ op = "unsubscribe"
    /\ ReqEmail \in Members(subsBefore, ReqCity)
    /\ ReqEmail \notin Members(subsFile, ReqCity)

\* C7: confirm_subscription or unsubscribe with a token that does not
\* verify for the request (forged, mailed for another address, mailed for
\* another city) fails, writes nothing and leaves the registry file exactly
\* what it was before the call; the failure of the verification step, which
\* a request for a known city reaches, is reported with the authorization
\* message of the operation.
C7_BadTokenChangesNothing ==
    (/\ op \in {"confirm", "unsubscribe"}
     /\ req.token # TokenOf(ReqEmail, ReqCity, op))
    => /\ ~result[1]
       /\ subsFile = subsBefore
       /\ trace = <<>>
       /\ ReqCity \in CitySet =>
              result = <<FALSE, IF op = "confirm" THEN MsgBadConfirmLink
                                                  ELSE MsgBadUnsubscribeLink>>

\* A confirm with the token mailed to another address for the same city,
\* while that other address is subscribed and the requester is not.
C7_Witness ==
    /\ op = "confirm"
    /\ ReqCity \in CitySet
    /\ req.token = TokenOf(OtherAddress(ReqEmail), ReqCity, "confirm")
    /\ OtherAddress(ReqEmail) \in Members(subsFile, ReqCity)
    /\ ReqEmail \notin Members(subsFile, ReqCity)

\* How often x occurs in a list.
Count(seq, x) == Cardinality({ i \in 1..Len(seq) : seq[i] = x })

\* C8: every address occurs at most once in each city's list; a confirm
\* with a valid token leaves exactly one entry for the address, and when the
\* address was already listed (a second confirm) it returns the
\* already-subscribed success without writing.
C8_AtMostOncePerCity ==
    /\ subsFile.exists =>
           \A c \in DOMAIN subsFile.data : \A a \in Range(subsFile.data[c]) :
               Count(subsFile.data[c], a) = 1
    /\ (/\ op = "confirm"
         /\ ReqCity \in CitySet
         /\ req.token = TokenOf(ReqEmail, ReqCity, "confirm"))
        => /\ result[1]
           /\ subsFile.exists
           /\ Count(subsFile.data[ReqCity], ReqEmail) = 1
           /\ ReqEmail \in Members(subsBefore, ReqCity)
                  => /\ result = <<TRUE, MsgAlreadySubscribed>>
                     /\ trace = <<>>
                     /\ subsFile = subsBefore

\* A second confirm of a listed address: already subscribed.
C8_Witness ==
    /\ op = "confirm"
    /\ result = <<TRUE, MsgAlreadySubscribed>>
    /\ Count(subsFile.data[ReqCity], ReqEmail) = 1

\* C9: unsubscribe with a valid token returns success in both cases; for an
\* address that is not listed it says not-subscribed and leaves the registry
\* file as it was; for a listed address it removes the address and only
\* that, so the same unsubscribe again changes nothing.
C9_UnsubscribeIdempotent ==
    (/\ op = "unsubscribe"
     /\ ReqCity \in CitySet
     /\ req.token = TokenOf(ReqEmail, ReqCity, "unsubscribe"))
    => /\ IF ReqEmail \in Members(subsBefore, ReqCity)
          THEN /\ result = <<TRUE, MsgUnsubscribed>>
               /\ ReqEmail \notin Members(subsFile, ReqCity)
               /\ \A c \in RegistryKeys :
                      Members(subsFile, c) =
                          IF c = ReqCity THEN Members(subsBefore, c) \ {ReqEmail}
                                         ELSE Members(subsBefore, c)
          ELSE /\ result = <<TRUE, MsgNotSubscribed>>
               /\ subsFile = subsBefore
               /\ trace = <<>>
       /\ LET again == unsubscribe(req.email, req.city, req.token, subsFile)
          IN  again.file = subsFile /\ again.result = <<TRUE, MsgNotSubscribed>>

\* An unsubscribe that removed one of the two addresses of a city's list.
C9_Witness ==
    /\ op = "unsubscribe"
    /\ result = <<TRUE, MsgUnsubscribed>>
    /\ Cardinality(Members(subsBefore, ReqCity)) = 2
    /\ Members(subsFile, ReqCity) = {OtherAddress(ReqEmail)}

\* C10: process_signup attempts its one confirmation send exactly when the
\* normalised email matches the address pattern and is at most 254
\* characters, the city is known and the address is not yet in the city's
\* list; otherwise it returns (False, message) without a send: "Invalid
\* email address" for a malformed or over-long email, the already-subscribed
\* failure for a member. It never changes the registry file.
C10_SignupSendsOnlyWhenAcceptable ==
    op = "signup" =>
        LET well_formed == PatternMatch(ReqEmail) /\ Len(ReqEmail) <= MAX_EMAIL_LEN
            member == ReqEmail \in Members(subsBefore, ReqCity)
            acceptable == well_formed /\ ReqCity \in CitySet /\ ~member
        IN  /\ subsFile = subsBefore
            /\ Len(trace) = (IF acceptable THEN 1 ELSE 0)
            /\ acceptable =>
                   /\ trace[1].ev = "send"
                   /\ trace[1].to = ReqEmail
                   /\ trace[1].city = ReqCity
                   /\ trace[1].token = TokenOf(ReqEmail, ReqCity, "confirm")
            /\ ~acceptable => ~result[1] /\ ~raised
            /\ ~well_formed => result = <<FALSE, "Invalid email address">>
            /\ (well_formed /\ ReqCity \in CitySet /\ member)
                   => result = <<FALSE, "This email is already subscribed">>

\* A signup of an address that is already in the city's list.
C10_Witness ==
    /\ op = "signup"
    /\ ReqEmail \in Members(subsBefore, ReqCity)
    /\ result = <<FALSE, "This email is already subscribed">>
    /\ trace = <<>>

\* The last operation attempted a send to an address for a city.
SentTo(email, city) ==
    \E i \in 1..Len(trace) :
        trace[i].ev = "send" /\ trace[i].to = email /\ trace[i].city = city

\* The same, of the operation a step performs.
SentToNext(email, city) ==
    \E i \in 1..Len(trace') :
        trace'[i].ev = "send" /\ trace'[i].to = email /\ trace'[i].city = city

\* C11: a run sends an alert for a city only to an address that is in the
\* city's list of the registry file the run loads; an address enters a list
\* only by a confirm with its valid token, a signup puts it in none, so a
\* run right after a signup of an unlisted address sends it nothing, and a
\* run right after a completed unsubscribe sends the address nothing.
C11_AlertsOnlyToConfirmed ==
    /\ [](op = "run" =>
             \A i \in 1..Len(trace) :
                 trace[i].ev = "send" =>
                     /\ trace[i].kind = "alert"
                     /\ trace[i].to \in Members(subsBefore, trace[i].city))
    /\ [](\A c \in RegistryKeys :
              \A a \in Members(subsFile, c) \ Members(subsBefore, c) :
                  /\ op = "confirm"
                  /\ ReqEmail = a /\ ReqCity = c
                  /\ handlers_verify_token(a, c, req.token, "confirm"))
    /\ [][ (/\ op = "signup"
             /\ ReqEmail \notin Members(subsBefore, ReqCity)
             /\ op' = "run")
            => /\ ReqEmail \notin Members(subsFile, ReqCity)
               /\ ~SentToNext(ReqEmail, ReqCity) ]_vars
    /\ [][ (/\ op = "unsubscribe"
             /\ result[1]
             /\ op' = "run")
            => ~SentToNext(ReqEmail, ReqCity) ]_vars

\* A run alerts the sydney subscriber for sydney and perth triggers too,
\* while the other address, listed nowhere, is sent nothing.
C11_Witness ==
    /\ op = "run"
    /\ {"sydney", "perth"} \subseteq Range(run.transitions)
    /\ \E a \in AddressPool :
           /\ SentTo(a, "sydney")
           /\ ~SentTo(a, "perth")
           /\ \A c \in CitySet : OtherAddress(a) \notin Members(subsBefore, c)
           /\ \A c \in CitySet : ~SentTo(OtherAddress(a), c)

\* How many sends the last operation attempted to an address for a city.
SendCount(email, city) ==
    Cardinality({ i \in 1..Len(trace) :
        trace[i].ev = "send" /\ trace[i].to = email /\ trace[i].city = city })

\* C12: a run attempts exactly one send, carrying the unsubscribe token of
\* (address, city), for each address in the list of each city that went
\* WAIT -> BUY, and no send for a city that did not.
C12_OneSendPerSubscriberOfTriggeredCity ==
    RunClassified =>
        /\ \A city \in CitySet, a \in AddressPool :
               SendCount(a, city) =
                   IF /\ PersistedPhase(stateBefore, city) = "WAIT"
                      /\ run.current_state[city] = "BUY"
                      /\ a \in Members(subsBefore, city)
                   THEN 1 ELSE 0
        /\ \A i \in 1..Len(trace) :
               trace[i].ev = "send" =>
                   /\ trace[i].city \in CitySet
                   /\ trace[i].to \in AddressPool
                   /\ trace[i].token = TokenOf(trace[i].to, trace[i].city, "unsubscribe")

\* C13: a send that fails (error response, timeout, transport error) costs
\* only its recipient the alert: every address in the list of every
\* triggered city gets its send attempt and the run completes.
C13_SendFailureIsolated ==
    RunClassified =>
        /\ ~raised
        /\ \A city \in Range(run.transitions) :
               \A a \in Members(subsBefore, city) : SentTo(a, city)

\* C14: every run whose fetch succeeds leaves the state file holding the
\* phase it classified for every city of CITIES, whether or not a city
\* triggered and whatever the sends returned or raised.
C14_StateOverwrittenByEveryClassifyingRun ==
    RunClassified =>
        /\ stateFile.exists
        /\ DOMAIN stateFile.data = CitySet
        /\ \A c \in CitySet :
               stateFile.data[c] = PhaseOfTip[Get(run.tips, c, "")]
        /\ stateFile.data = run.current_state

\* A run whose alert raised, and which replaced a different state file.
C14_Witness ==
    /\ RunClassified
    /\ raised
    /\ stateBefore.exists
    /\ stateFile # stateBefore
    /\ stateFile.data = run.current_state

\* C15: a run whose page fetch fails returns the failure result having
\* classified nothing, written neither file and sent nothing; the state file
\* still holds the phases of before, so the next run that fetches triggers
\* every city that is WAIT there and that it classifies BUY.
C15_FetchFailureAbortsRun ==
    /\ [](op = "run" /\ ~run.fetched =>
             /\ run.exit = 1
             /\ run.current_state = <<>>
             /\ run.transitions = <<>>
             /\ stateFile = stateBefore
             /\ subsFile = subsBefore
             /\ trace = <<>>
             /\ ~raised)
    /\ [][ (/\ op = "run" /\ ~run.fetched
             /\ op' = "run" /\ run'.fetched)
            => \A c \in CitySet :
                   (/\ PersistedPhase(stateBefore, c) = "WAIT"
                    /\ run'.current_state[c] = "BUY")
                   => c \in Range(run'.transitions) ]_vars

\* A failed fetch while sydney is persisted as WAIT and has a subscriber.
C15_Witness ==
    /\ op = "run"
    /\ ~run.fetched
    /\ run.exit = 1
    /\ PersistedPhase(stateFile, "sydney") = "WAIT"
    /\ Members(subsFile, "sydney") # {}

\* C16: once a run has classified, the state file has one entry for each
\* city of CITIES and for nothing else, each WAIT or BUY; UNKNOWN is what
\* load_state gives only while no run has classified, and no run writes it.
C16_StateRecordShape ==
    /\ RunClassified => stateFile.exists
    /\ stateFile.exists <=> classified # <<>>
    /\ stateFile.exists =>
           /\ DOMAIN stateFile.data = CitySet
           /\ \A c \in CitySet : stateFile.data[c] \in {"WAIT", "BUY"}
    /\ \A c \in CitySet :
           main_load_state(stateFile)[c] = "UNKNOWN" <=> ~stateFile.exists
    /\ RunClassified =>
           \A i \in 1..Len(trace) :
               trace[i].ev = "save_state" =>
                   \A c \in DOMAIN trace[i].data : trace[i].data[c] \in {"WAIT", "BUY"}

\* The first classifying run, on a page that yields no tip at all: every
\* city goes from UNKNOWN to WAIT.
C16_Witness ==
    /\ RunClassified
    /\ ~stateBefore.exists
    /\ run.tips = <<>>
    /\ \A c \in CitySet : run.previous_state[c] = "UNKNOWN" /\ stateFile.data[c] = "WAIT"

\* The positions of the writes of the state file and of the send attempts
\* among the effects of the last operation.
SavePositions == { i \in 1..Len(trace) : trace[i].ev = "save_state" }

SendPositions == { i \in 1..Len(trace) : trace[i].ev = "send" }

\* C17 as stated: in a run the state file is overwritten after the alert
\* dispatch, every send attempt of the run coming before the write.
C17_StateSavedAfterDispatch ==
    RunClassified =>
        /\ SavePositions # {}
        /\ \A i \in SendPositions, j \in SavePositions : i < j

\* C17, amended: in a run the state file is overwritten before the alert
\* dispatch: the one write of the new snapshot is the first effect of the
\* run and every send attempt of the run comes after it.
C17_StateSavedBeforeDispatch ==
    RunClassified =>
        /\ SavePositions = {1}
        /\ trace[1].data = run.current_state
        /\ \A i \in SendPositions : i > 1
        /\ stateFile.data = run.current_state

\* A run that wrote the state and then attempted two sends.
C17_Witness ==
    /\ RunClassified
    /\ SavePositions = {1}
    /\ Cardinality(SendPositions) >= 2

\* A registry file like the given one, with the address in the city's list.
RegistryWith(subsfile, city, email) ==
    LET subscribers == load_subscribers(subsfile)
    IN  IF in_city_list(subscribers, city, email) THEN subsfile
        ELSE save_subscribers(DictSet(subscribers, city,
                                      Append(Get(subscribers, city, <<>>), email)))

\* A registry file like the given one, with the address not in the list.
RegistryWithout(subsfile, city, email) ==
    LET subscribers == load_subscribers(subsfile)
    IN  IF ~in_city_list(subscribers, city, email) THEN subsfile
        ELSE save_subscribers([subscribers EXCEPT ![city] = ListRemove(@, email)])

\* C18: for a request whose token does not verify, the (success, message)
\* of confirm_subscription and of unsubscribe is the same on the registry
\* with the address in the city's list, on the registry without it, and on
\* no registry at all: the answer does not tell whether the address is
\* subscribed.
C18_FailureDoesNotLeakMembership ==
    (/\ op \in {"confirm", "unsubscribe"}
     /\ req.token # TokenOf(ReqEmail, ReqCity, op))
    => LET with == RegistryWith(subsBefore, ReqCity, ReqEmail)
           without == RegistryWithout(subsBefore, ReqCity, ReqEmail)
       IN  /\ ReqEmail \in Members(with, ReqCity)
           /\ ReqEmail \notin Members(without, ReqCity)
           /\ subsBefore \in {with, without}
           /\ IF op = "confirm"
              THEN \A f \in {with, without, NoFile} :
                       confirm_subscription(req.email, req.city, req.token, f).result
                           = result
              ELSE \A f \in {with, without, NoFile} :
                       unsubscribe(req.email, req.city, req.token, f).result = result

\* A confirm with a forged token for an address that is subscribed.
C18_Witness ==
    /\ op = "confirm"
    /\ req.token = TamperedToken
    /\ ReqCity \in CitySet
    /\ ReqEmail \in Members(subsBefore, ReqCity)
    /\ result = <<FALSE, MsgBadConfirmLink>>

\* C19: a token is accepted whenever it is presented for its (email, city,
\* action), also when the handlers have accepted it before and whatever
\* happened in between: the confirm token presented again after an
\* unsubscribe adds the address again, and the unsubscribe token presented
\* again after a new confirm removes it again.
C19_TokenValidAfterUse ==
    /\ (op = "confirm" /\ ReqCity \in CitySet
            /\ req.token = TokenOf(ReqEmail, ReqCity, "confirm"))
        => /\ result[1]
           /\ ReqEmail \in Members(subsFile, ReqCity)
           /\ ReqEmail \notin Members(subsBefore, ReqCity)
                  => result[2] # MsgAlreadySubscribed /\ subsFile # subsBefore
    /\ (op = "unsubscribe" /\ ReqCity \in CitySet
            /\ req.token = TokenOf(ReqEmail, ReqCity, "unsubscribe"))
        => /\ result[1]
           /\ ReqEmail \notin Members(subsFile, ReqCity)
           /\ ReqEmail \in Members(subsBefore, ReqCity)
                  => result = <<TRUE, MsgUnsubscribed>>
    /\ \A t \in used_tokens :
           \E e \in AddressPool, c \in CitySet, a \in Actions :
               /\ t = TokenOf(e, c, a)
               /\ handlers_verify_token(e, c, t, a)

\* The unsubscribe token, accepted before, removes the address once more,
\* the confirm token having been accepted before as well.
C19_Witness ==
    /\ op = "unsubscribe"
    /\ req.token \in used_tokens
    /\ TokenOf(ReqEmail, ReqCity, "confirm") \in used_tokens
    /\ ReqEmail \in Members(subsBefore, ReqCity)
    /\ result = <<TRUE, MsgUnsubscribed>>

\* The list of a city after a call that reported success took effect.
MembersAfter(action, email, city, members, c) ==
    IF c # city THEN members
    ELSE IF action = "confirm" THEN members \cup {email}
    ELSE members \ {email}

\* C20: a call that verified its token loads the whole registry and, when
\* it changes the list, writes the whole of its copy back. Every call that
\* returns after its load reports success; when no other call wrote the file
\* between its load and its return (as in every serialized execution), the
\* file then holds its effect and every other entry as before. When another
\* call did write in between, nothing is guaranteed: the witness is the
\* lost update.
C20_SerializedCallsKeepEveryEffect ==
    [][ \A p \in Procs :
            (procs[p].pc = "loaded" /\ procs'[p].pc = "done")
            => /\ procs'[p].result[1]
               /\ ~procs[p].stale
                      => \A c \in CitySet :
                             Members(subsFile', c) =
                                 MembersAfter(procs[p].action, procs[p].email,
                                              procs[p].city, Members(subsFile, c), c)
               /\ procs'[p].wrote
                      => subsFile'.data[procs[p].city] =
                             IF procs[p].action = "confirm"
                             THEN Append(Get(procs[p].subscribers, procs[p].city, <<>>),
                                         procs[p].email)
                             ELSE ListRemove(procs[p].subscribers[procs[p].city],
                                             procs[p].email) ]_vars

\* Two confirms with valid tokens, for two addresses of one city, both
\* loaded before either saved: both reported the new subscription, and the
\* file written last lacks the address of the call that saved first.
C20_Witness ==
    \E p, q \in Procs :
        /\ p # q
        /\ procs[p].pc = "done" /\ procs[q].pc = "done"
        /\ procs[p].action = "confirm" /\ procs[q].action = "confirm"
        /\ procs[p].wrote /\ procs[q].wrote
        /\ procs[p].result[1] /\ procs[q].result[1]
        /\ procs[p].stale /\ ~procs[q].stale
        /\ procs[p].city = procs[q].city
        /\ procs[p].email # procs[q].email
        /\ procs[p].email \in Members(subsFile, procs[p].city)
        /\ procs[q].email \notin Members(subsFile, procs[q].city)

\* The files the last operation wrote, by its effects.
WroteState == \E i \in 1..Len(trace) : trace[i].ev = "save_state"

WroteRegistry == \E i \in 1..Len(trace) : trace[i].ev = "save_subscribers"

\* C21: a scheduled run reads the subscriber registry and never writes it;
\* signup, confirm_subscription and unsubscribe never write the state file.
\* So whatever the order of runs and subscription actions, a run leaves
\* every subscriber list as it was and a subscription action leaves the
\* phase snapshot as it was.
C21_DisjointOwnership ==
    /\ [](op = "run" => subsFile = subsBefore /\ ~WroteRegistry)
    /\ [](op \in {"signup", "confirm", "unsubscribe"}
              => stateFile = stateBefore /\ ~WroteState)
    /\ [][ op' = "run" => subsFile' = subsFile ]_vars
    /\ [][ op' \in {"signup", "confirm", "unsubscribe"}
               => stateFile' = stateFile ]_vars
    /\ [][ subsFile' # subsFile => op' \in {"confirm", "unsubscribe"} ]_vars
    /\ [][ stateFile' # stateFile => op' = "run" ]_vars

\* A run on a registry file that does not exist yet: it triggers, loads
\* the default registry, replaces the state file and creates no registry.
C21_Witness ==
    /\ op = "run"
    /\ run.transitions # <<>>
    /\ ~raised
    /\ stateFile # stateBefore
    /\ ~subsFile.exists

\* C22: the registry file has only cities of CITIES as keys and only
\* lower-cased, trimmed addresses in its lists; confirm_subscription and
\* unsubscribe act on the normalised email and city, so a call written in
\* other letter case or with surrounding whitespace does what the call with
\* the normalised arguments does, on the one entry of the address.
C22_RegistryHoldsNormalisedEntries ==
    /\ subsFile.exists =>
           /\ DOMAIN subsFile.data \subseteq CitySet
           /\ \A c \in DOMAIN subsFile.data : \A a \in Range(subsFile.data[c]) :
                  a = Strip(Lower(a))
    /\ op = "confirm" =>
           LET same == confirm_subscription(Strip(Lower(req.email)),
                                            Strip(Lower(req.city)),
                                            req.token, subsBefore)
           IN  same.file = subsFile /\ same.result = result
    /\ op = "unsubscribe" =>
           LET same == unsubscribe(Strip(Lower(req.email)), Strip(Lower(req.city)),
                                   req.token, subsBefore)
           IN  same.file = subsFile /\ same.result = result
    /\ (op = "confirm" /\ result[1]) =>
           /\ Count(subsFile.data[Strip(Lower(req.city))], Strip(Lower(req.email))) = 1
           /\ req.email # Strip(Lower(req.email))
                  => req.email \notin Members(subsFile, Strip(Lower(req.city)))

\* A confirm written with capitals and spaces, for an address and a city,
\* that added the lower-cased, trimmed address to the city's list.
C22_Witness ==
    /\ op = "confirm"
    /\ req.email # Strip(Lower(req.email))
    /\ req.city # Strip(Lower(req.city))
    /\ result[1]
    /\ subsFile # subsBefore
    /\ Strip(Lower(req.email)) \in Members(subsFile, Strip(Lower(req.city)))

\* The fields a request to an entry point has to carry.
RequiredFields == {"action", "email", "city", "token"}

\* C23: a request that lacks one of the four fields action, email, city,
\* token is rejected at the entry point, whichever entry point it is (the
\* serverless handler, the /confirm route, the /unsubscribe route):
\* neither confirm_subscription nor unsubscribe is called for it.
C23_MissingFieldRejectedAtBoundary ==
    (http.entry # "none" /\ RequiredFields \ http.sent # {})
        => (http.called = "none" /\ http.status = 400)

\* The serverless handler by itself does reject such a request.
C23_HandlerRejectsMissingField ==
    (http.entry = "handler" /\ RequiredFields \ http.sent # {})
        => (http.called = "none" /\ http.status = 400 /\ subsFile = subsBefore)

\* A Flask route has served a request without a token.
C23_RouteServedPartialRequest ==
    /\ http.entry \in {"confirm_route", "unsubscribe_route"}
    /\ "token" \notin http.sent
    /\ http.called # "none"

\* C24: the link of a mail round-trips. For every address process_signup
\* accepts and every known city, the request that carries the query string
\* of the confirmation link is verified and subscribes that address; the
\* request that carries the query string of the unsubscribe link is
\* verified and leaves that address unsubscribed.
C24_LinkRoundTrip ==
    http.link.kind # "" =>
        /\ http.called # "none"
        /\ result[1]
        /\ normalize(req.email) = http.link.email
        /\ normalize(req.city) = http.link.city
        /\ http.link.kind = "confirm" =>
               http.link.email \in Members(subsFile, http.link.city)
        /\ http.link.kind = "unsubscribe" =>
               http.link.email \notin Members(subsFile, http.link.city)

\* The links of the addresses without "+" and "%" do round-trip.
C24_PlainLinkRoundTrip ==
    (http.link.kind # "" /\ http.link.email = unquote_plus(http.link.email)) =>
        /\ http.called # "none"
        /\ result[1]
        /\ normalize(req.email) = http.link.email
        /\ normalize(req.city) = http.link.city
        /\ http.link.kind = "confirm" =>
               http.link.email \in Members(subsFile, http.link.city)
        /\ http.link.kind = "unsubscribe" =>
               http.link.email \notin Members(subsFile, http.link.city)

\* A link whose address has a "+" or a "%" was followed and refused.
C24_TaggedLinkRefused ==
    /\ http.link.kind # ""
    /\ http.link.email # unquote_plus(http.link.email)
    /\ ~result[1]

====
